---- MODULE Spec2Model ----
(***************************************************************************)
(* Model of autorefl/instrument.py: the reflectometer instruments MAGIK    *)
(* and CANDOR, their unit conversions (q2a, a2q), the monitor-time         *)
(* allocator (meastime), the motion-time model (movetime) and the          *)
(* rebinning engine (Q2TdTLdL).                                            *)
(*                                                                         *)
(* Numbers are fixed point integers:                                       *)
(*   angles (T, dT, CANDOR positions)   1e-3 degree                        *)
(*   momentum transfer (Q, MAGIK pos.)  1e-3 1/Angstrom                    *)
(*   wavelengths (L, dL)                1e-3 Angstrom                      *)
(*   move times                         1e-3 second                        *)
(*   speeds 0.1 degree/s, accelerations 0.1 degree/s^2                     *)
(* Monitor times are exact rationals <<numerator, denominator>>.           *)
(* Floating point rounding is not modelled; numpy's nan and inf results    *)
(* and Python's exceptions are modelled as tagged records.                 *)
(***************************************************************************)
EXTENDS Integers, Sequences, FiniteSets

VARIABLES
    name,       \* self.name: which instrument was constructed
    x,          \* self.x: current position (None until the caller sets it)
    pc,         \* "idle", or "returned" right after a call
    call,       \* the call made: [op |-> ..., arguments]
    ret,        \* what the call returned (or the exception it raised)
    loc         \* the locals of Q2TdTLdL at its return

vars == <<name, x, pc, call, ret, loc>>

\* self.x is None, or holds one position
None == <<>>
Some(p) == <<p>>

\* a float: a number, or numpy's nan or inf
Num(n) == [tag |-> "num", v |-> n]
NaN == [tag |-> "nan", v |-> 0]
Inf == [tag |-> "inf", v |-> 0]
IsNum(f) == f.tag = "num"

\* how a call ends: it returns a value or raises an exception
Return(v) == [raised |-> "none", value |-> v]
Raise(e) == [raised |-> e, value |-> <<>>]

NoCall == [op |-> "none"]
NoLocals == [op |-> "none"]

\* ------------------------------------------------------------ arithmetic

Abs(a) == IF a < 0 THEN -a ELSE a

Max(a, b) == IF a >= b THEN a ELSE b

RECURSIVE Gcd(_, _)
Gcd(a, b) == IF b = 0 THEN Abs(a) ELSE Gcd(b, a % b)

RECURSIVE SqrtBetween(_, _, _)
\* the largest r in lo..hi with r*r <= n, by bisection (lo*lo <= n < (hi+1)^2)
SqrtBetween(n, lo, hi) ==
    IF lo >= hi THEN lo
    ELSE LET mid == (lo + hi + 1) \div 2
         IN  IF mid * mid <= n THEN SqrtBetween(n, mid, hi)
                               ELSE SqrtBetween(n, lo, mid - 1)

\* the integer square root of 0 <= n < 2^31
isqrt(n) == SqrtBetween(n, 0, 46340)

\* float arithmetic with numpy's special values: x/0 is inf and 0/0 is nan
\* (a warning, no exception), the square root of a negative number is nan
FDiv(a, b) ==
    IF ~IsNum(a) \/ ~IsNum(b) THEN NaN
    ELSE IF b.v = 0 THEN (IF a.v = 0 THEN NaN ELSE Inf)
    ELSE Num(a.v \div b.v)

FSub(a, b) ==
    IF IsNum(a) /\ IsNum(b) THEN Num(a.v - b.v)
    ELSE IF a.tag = "nan" \/ b.tag = "nan" THEN NaN
    ELSE IF a.tag = "inf" /\ b.tag = "inf" THEN NaN
    ELSE Inf

FSq(a) == IF IsNum(a) THEN Num(a.v * a.v) ELSE a

FSqrt(a) ==
    IF IsNum(a) THEN (IF a.v < 0 THEN NaN ELSE Num(isqrt(a.v)))
    ELSE a

\* exact rationals <<numerator, denominator>>, denominator > 0, reduced
Rat(n, d) == LET g == Gcd(n, d)
                 s == IF d < 0 THEN -1 ELSE 1
             IN  <<s * (n \div g), s * (d \div g)>>

RatAdd(a, b) == LET g == Gcd(a[2], b[2])
                IN  Rat(a[1] * (b[2] \div g) + b[1] * (a[2] \div g),
                        a[2] * (b[2] \div g))

RatMul(a, b) == LET g1 == Gcd(a[1], b[2])
                    g2 == Gcd(b[1], a[2])
                    h1 == IF g1 = 0 THEN 1 ELSE g1
                    h2 == IF g2 = 0 THEN 1 ELSE g2
                IN  Rat((a[1] \div h1) * (b[1] \div h2),
                        (a[2] \div h2) * (b[2] \div h1))

\* a / b for b # 0
RatDiv(a, b) == RatMul(a, Rat(b[2], b[1]))

RECURSIVE RatPow(_, _)
RatPow(a, n) == IF n = 0 THEN <<1, 1>> ELSE RatMul(a, RatPow(a, n - 1))

\* ------------------------------------------------------------ trigonometry

\* 4*np.pi, in 1e-3
FourPi == 12566

\* np.sin(np.radians(t)): t in 1e-3 degree, result in 1e-5 (third order series)
SinDeg(t) ==
    LET r  == (t * 17453) \div 10000
        r2 == (r * r) \div 100000
        r3 == (r2 * r) \div 100000
    IN  r - r3 \div 6

\* np.degrees(np.arcsin(z)): z in 1e-5, result in 1e-3 degree; nan outside
\* [-1, 1] (third order series, for the small arguments of reflectometry)
ArcsinDeg(z) ==
    IF Abs(z) > 100000 THEN NaN
    ELSE LET z2 == (z * z) \div 100000
             z3 == (z2 * z) \div 100000
         IN  Num(((z + z3 \div 6) * 57296) \div 100000)

\* ------------------------------------------------------------ unit conversion

\* q2a(q, L): no check of the wavelength; arcsin of an argument outside
\* [-1, 1] is nan
q2a(q, wl) == ArcsinDeg((q * wl * 100) \div FourPi)

\* a2q(T, L): 4*np.pi/L raises ZeroDivisionError for a Python float 0.0 and is
\* inf for a numpy zero (inf * 0 is nan); no other check of the wavelength
a2q(t, wl, pyfloat) ==
    IF wl = 0
    THEN IF pyfloat THEN Raise("ZeroDivisionError")
         ELSE IF SinDeg(t) = 0 THEN Return(NaN) ELSE Return(Inf)
    ELSE Return(Num(((FourPi * SinDeg(t)) \div 100) \div wl))

\* ------------------------------------------------------------ instruments

Instruments == {"MAGIK", "CANDOR"}

\* detector arm: speeds in 0.1 degree/s, acceleration in 0.1 degree/s^2
topspeed(self) == IF self = "MAGIK" THEN 10 ELSE 20
basespeed(self) == IF self = "MAGIK" THEN 2 ELSE 1
acceleration(self) == IF self = "MAGIK" THEN 5 ELSE 1

\* t(Q) scaling: t(Q) is proportional to mon0 + mon1 * Q^Qpow
mon0(self) == IF self = "MAGIK" THEN 30 ELSE 20
mon1(self) == IF self = "MAGIK" THEN 1250 ELSE 20000
Qpow(self) == IF self = "MAGIK" THEN 2 ELSE 3

\* self._L, self._dL: one wavelength for MAGIK; for CANDOR the bank's table,
\* read from the calibration file (here a bank of two channels)
wavelengths(self) == IF self = "MAGIK" THEN <<5000>> ELSE <<6000, 4000>>
spreads(self) == IF self = "MAGIK" THEN <<35>> ELSE <<60, 40>>

\* x2a: MAGIK scans in Q (q2a at its wavelength), CANDOR scans in angle
x2a(self, p) == IF self = "MAGIK" THEN q2a(p, wavelengths(self)[1]).v ELSE p

\* ------------------------------------------------------------ movetime

\* total time that the arm is accelerating, in 0.1 s
accel_t(self) == ((topspeed(self) - basespeed(self)) * 10) \div acceleration(self)

\* distance of one acceleration / deceleration cycle that does not reach top
\* speed: 2 * (0.5 * acceleration * accel_t^2 + basespeed * accel_t), in 1e-3 degree
max_accel_dx(self) ==
    acceleration(self) * accel_t(self) * accel_t(self)
        + 2 * basespeed(self) * accel_t(self) * 10

\* detector arm motion is 2 * dTheta, for each target
dx(self, cur, targets) ==
    [i \in DOMAIN targets |-> 2 * Abs(x2a(self, targets[i]) - x2a(self, cur))]

\* a slip: one acceleration phase counted instead of two
CruiseTime_one_ramp(self, d) ==
    accel_t(self) * 100 + ((d - max_accel_dx(self)) * 10) \div topspeed(self)

\* top velocity reached: 2 * accel_t + (dx - max_accel_dx) / topspeed, in 1e-3 s
CruiseTime(self, d) ==
    2 * accel_t(self) * 100 + ((d - max_accel_dx(self)) * 10) \div topspeed(self)

\* top velocity not reached:
\* 2 * basespeed / acceleration * (-1 + sqrt(1 + 2 * (dx/2) * acceleration / basespeed^2))
AccelTime(self, d) ==
    LET b == basespeed(self)
        a == acceleration(self)
    IN  (2 * isqrt((100 * b * b + d * a) * 10000) - 2000 * b) \div a

\* a slip: the branch of the first target taken for all targets
accel_crit_first(self, d) == [i \in DOMAIN d |-> d[1] < max_accel_dx(self)]

\* the points in the acceleration only regime
accel_crit(self, d) == [i \in DOMAIN d |-> d[i] < max_accel_dx(self)]

movetime(self, cur, targets) ==
    IF cur = None
    THEN <<0>>
    ELSE LET d    == dx(self, cur[1], targets)
             crit == accel_crit(self, d)
         IN  [i \in DOMAIN d |->
                 IF crit[i] THEN AccelTime(self, d[i]) ELSE CruiseTime(self, d[i])]

\* ------------------------------------------------------------ meastime

\* x2q for channel c: MAGIK scans in Q; CANDOR converts its angle at the
\* channel's wavelength
x2q(self, p, c) ==
    IF self = "MAGIK" THEN p
    ELSE a2q(p, wavelengths(self)[c], FALSE).value.v

\* the momentum transfer the allocator weighs a position by: the base class
\* takes x2q (MAGIK), CANDOR overrides it with a2q at the fixed wavelength 5.0
meas_q(self, xs) ==
    [i \in DOMAIN xs |->
        IF self = "MAGIK" THEN x2q(self, xs[i], 1)
        ELSE a2q(xs[i], 5000, TRUE).value.v]

\* f = mon0 + mon1 * q ** Qpow
f(self, q) ==
    [i \in DOMAIN q |->
        RatAdd(<<mon0(self), 1>>,
               RatMul(<<mon1(self), 1>>, RatPow(Rat(q[i], 1000), Qpow(self))))]

RECURSIVE sum(_)
\* Python's sum(f)
sum(w) == IF Len(w) = 0 THEN <<0, 1>>
          ELSE RatAdd(sum(SubSeq(w, 1, Len(w) - 1)), w[Len(w)])

\* a slip: the weights divided by their number instead of their sum
meastime_by_count(self, xs, totaltime) ==
    LET w == f(self, meas_q(self, xs))
    IN  [i \in DOMAIN xs |->
            Num(RatDiv(RatMul(<<totaltime, 1>>, w[i]), <<Len(xs), 1>>))]

\* totaltime * f / sum(f), elementwise; a zero sum(f) gives nan or inf
meastime(self, xs, totaltime) ==
    LET w == f(self, meas_q(self, xs))
        s == sum(w)
    IN  [i \in DOMAIN xs |->
            LET n == RatMul(<<totaltime, 1>>, w[i])
            IN  IF s[1] = 0
                THEN (IF n[1] = 0 THEN NaN ELSE Inf)
                ELSE Num(RatDiv(n, s))]

\* ------------------------------------------------------------ Q2TdTLdL

\* the raw points: the (position, channel) pairs, flattened position by
\* position as numpy's ravel does for arrays of shape (positions, channels)
nchannels(self) == Len(wavelengths(self))
RawPoints(self, measx) == 1 .. (Len(measx) * nchannels(self))
PosOf(self, p) == (p - 1) \div nchannels(self) + 1
ChanOf(self, p) == ((p - 1) % nchannels(self)) + 1

\* reflred.resolution.divergence for the slits at an angle: not part of this
\* code; a width that grows linearly with the angle, in 1e-3 degree
divergence(angle) == 4 + (12 * angle) \div 1000

\* self.x2q(measx), self.T(measx), self.dT(measx), self.L(measx),
\* self.dL(measx), each flattened
raw_Q(self, measx) ==
    [p \in RawPoints(self, measx) |-> x2q(self, measx[PosOf(self, p)], ChanOf(self, p))]
T(self, measx) ==
    [p \in RawPoints(self, measx) |-> x2a(self, measx[PosOf(self, p)])]
dT(self, measx) ==
    [p \in RawPoints(self, measx) |-> divergence(x2a(self, measx[PosOf(self, p)]))]
L(self, measx) ==
    [p \in RawPoints(self, measx) |-> wavelengths(self)[ChanOf(self, p)]]
dL(self, measx) ==
    [p \in RawPoints(self, measx) |-> spreads(self)[ChanOf(self, p)]]

\* -np.inf and np.inf among the fixed point numbers
NegInf == -1000000
PosInf == 1000000

\* reflred.candor.edges(c, extended=True): the midpoints between the bin
\* centers, the outer edges mirrored about the outer centers, and an
\* unbounded bin on either side
edges(c) ==
    LET midpoints == [i \in 1 .. (Len(c) - 1) |-> (c[i] + c[i + 1]) \div 2]
        left  == 2 * c[1] - midpoints[1]
        right == 2 * c[Len(c)] - midpoints[Len(c) - 1]
    IN  <<NegInf, left>> \o midpoints \o <<right, PosInf>>

\* np.searchsorted(a, v): the number of elements of the sorted a below v
searchsorted(a, v) == Cardinality({i \in DOMAIN a : a[i] < v})

\* a slip: the offset of the bin index forgotten
bin_index_no_offset(q_edges, Q) ==
    [p \in DOMAIN Q |-> searchsorted(q_edges, Q[p])]

\* bin_index = np.searchsorted(q_edges, _Q).ravel() - 1
bin_index(q_edges, Q) ==
    [p \in DOMAIN Q |-> searchsorted(q_edges, Q[p]) - 1]

RECURSIVE SumOver(_, _)
SumOver(S, w) ==
    IF S = {} THEN 0
    ELSE LET p == CHOOSE p \in S : TRUE
         IN  w[p] + SumOver(S \ {p}, w)

\* the length of np.bincount(index, minlength=nbins)
bincount_len(index, nbins) ==
    LET top == CHOOSE m \in {index[p] : p \in DOMAIN index} :
                   \A p \in DOMAIN index : index[p] <= m
    IN  Max(nbins, top + 1)

\* np.bincount(index, weights=w, minlength=nbins), for indexes >= 0
bincount(index, w, nbins) ==
    [b \in 0 .. (bincount_len(index, nbins) - 1) |->
        SumOver({p \in DOMAIN index : index[p] = b}, w)]

ones(index) == [p \in DOMAIN index |-> 1]

\* a slip: the guard against empty bins left out
protect_none(sum_w) == sum_w

\* sum_w += (sum_w == 0): protect against divide by zero
protect(sum_w) ==
    [b \in DOMAIN sum_w |-> sum_w[b] + (IF sum_w[b] = 0 THEN 1 ELSE 0)]

\* a slip: the sum of a bin taken for its mean
bin_mean_sum(a, w, b) == Num(a[b])

\* a / w in bin b
bin_mean(a, w, b) == FDiv(Num(a[b]), Num(w[b]))

\* a slip: the query found on the extended edges, with the offset of the grid
idxs_on_edges(measQ, qs) ==
    [i \in DOMAIN qs |-> searchsorted(edges(measQ), qs[i]) + 1]

\* idxs = np.searchsorted(measQ, qs) + 1
idxs(measQ, qs) == [i \in DOMAIN qs |-> searchsorted(measQ, qs[i]) + 1]

\* the locals of Q2TdTLdL, for a bin_index without negative entries
Rebin(self, qs, measx, measQ) ==
    LET Q_   == raw_Q(self, measx)
        T_   == T(self, measx)
        dT_  == dT(self, measx)
        L_   == L(self, measx)
        dL_  == dL(self, measx)
        q_edges == edges(measQ)
        nbins == Len(q_edges) - 1
        index == bin_index(q_edges, Q_)
        count == bincount(index, ones(index), nbins)
        sum_w == protect(count)
        sum_L == bincount(index, L_, nbins)
        sum_dLsq == bincount(index, [p \in DOMAIN L_ |-> dL_[p] * dL_[p] + L_[p] * L_[p]], nbins)
        sum_T == bincount(index, T_, nbins)
        sum_dT == bincount(index, [p \in DOMAIN dT_ |-> dT_[p] * dT_[p]], nbins)
    IN  [op |-> "Q2TdTLdL",
         Q |-> Q_, T |-> T_, dT |-> dT_, L |-> L_, dL |-> dL_,
         q_edges |-> q_edges, nbins |-> nbins, bin_index |-> index,
         count |-> count, sum_w |-> sum_w,
         bar_L |-> [b \in DOMAIN sum_w |-> bin_mean(sum_L, sum_w, b)],
         bar_dL |-> [b \in DOMAIN sum_w |->
                       FSqrt(FSub(bin_mean(sum_dLsq, sum_w, b),
                                  FSq(bin_mean(sum_L, sum_w, b))))],
         bar_T |-> [b \in DOMAIN sum_w |-> bin_mean(sum_T, sum_w, b)],
         bar_dT |-> [b \in DOMAIN sum_w |-> FSqrt(bin_mean(sum_dT, sum_w, b))],
         idxs |-> idxs(measQ, qs)]

\* bar[idxs]: the values of the bins idx of a per-bin array
take(bar, idx) == [i \in DOMAIN idx |-> bar[idx[i]]]

\* Q2TdTLdL(qs, measx, measQ): the pair of what it returns and its locals.
\* np.bincount raises ValueError for a negative bin index; indexing the bin
\* means beyond their length raises IndexError.
Q2TdTLdL(self, qs, measx, measQ) ==
    LET index == bin_index(edges(measQ), raw_Q(self, measx))
    IN  IF \E p \in DOMAIN index : index[p] < 0
        THEN <<Raise("ValueError"),
               [op |-> "Q2TdTLdL", bin_index |-> index,
                nbins |-> Len(edges(measQ)) - 1]>>
        ELSE LET l  == Rebin(self, qs, measx, measQ)
                 ix == l.idxs
             IN  IF \E i \in DOMAIN ix : ix[i] \notin DOMAIN l.bar_T
                 THEN <<Raise("IndexError"), l>>
                 ELSE <<Return(<<take(l.bar_T, ix), take(l.bar_dT, ix),
                                 take(l.bar_L, ix), take(l.bar_dL, ix)>>),
                        l>>

\* ------------------------------------------------------------ the caller

\* the most targets in one movetime call
MaxTargets == 2

\* SeqsUpTo(S, n): the nonempty sequences over S of length at most n
SeqsUpTo(S, n) == UNION {[1..k -> S] : k \in 1..n}

\* scan positions for moves: on both sides of the max_accel_dx threshold
\* (MAGIK: Q in 1e-3 1/Angstrom; CANDOR: angle in 1e-3 degree)
MovePositions(self) ==
    IF self = "MAGIK" THEN {0, 10, 42, 43, 100}
                      ELSE {0, 500, 19949, 19950, 21000}

\* the most scan positions in one meastime call
MaxScan == 2

\* scan positions for a measurement; CANDOR's -2280 is the angle at which
\* the weight mon0 + mon1 * q^3 is zero
ScanPositions(self) ==
    IF self = "MAGIK" THEN {0, 10, 100, 300}
                      ELSE {-2280, 0, 1000, 2000}

\* total times, in seconds
TotalTimes == {0, 1, 10, 60}

\* the most raw positions and the most queries in one Q2TdTLdL call
MaxRaw == 2
MaxQueries == 1

\* raw positions measx: below, inside and above the grids
\* (MAGIK: Q in 1e-3 1/Angstrom; CANDOR: angle in 1e-3 degree)
RebinPositions(self) ==
    IF self = "MAGIK" THEN {5, 20, 36, 120}
                      ELSE {100, 500, 1000, 5000}

\* target grids measQ: increasing bin centers, evenly spaced or not
Grids == {<<20, 40>>, <<20, 60>>, <<20, 40, 60>>, <<20, 40, 100>>, <<40, 60, 100>>}

\* queries qs: on the grid values, between them, below and above them
QueryVals == {5, 20, 25, 35, 40, 104, 130}

Init ==
    /\ name \in Instruments
    /\ x = None
    /\ pc = "idle"
    /\ call = NoCall
    /\ ret = Return(<<>>)
    /\ loc = NoLocals

\* the caller sets the current position between calls
SetX ==
    /\ pc = "idle"
    /\ \E p \in MovePositions(name) : x' = Some(p)
    /\ UNCHANGED <<name, pc, call, ret, loc>>

Movetime ==
    /\ pc = "idle"
    /\ \E targets \in SeqsUpTo(MovePositions(name), MaxTargets) :
          /\ call' = [op |-> "movetime", x |-> targets]
          /\ ret' = Return(movetime(name, x, targets))
    /\ pc' = "returned"
    /\ UNCHANGED <<name, x, loc>>

Meastime ==
    /\ pc = "idle"
    /\ \E xs \in SeqsUpTo(ScanPositions(name), MaxScan), totaltime \in TotalTimes :
          /\ call' = [op |-> "meastime", x |-> xs, totaltime |-> totaltime]
          /\ ret' = Return(meastime(name, xs, totaltime))
    /\ pc' = "returned"
    /\ UNCHANGED <<name, x, loc>>

CallQ2TdTLdL ==
    /\ pc = "idle"
    /\ \E measx \in SeqsUpTo(RebinPositions(name), MaxRaw),
          measQ \in Grids,
          qs \in SeqsUpTo(QueryVals, MaxQueries) :
          LET r == Q2TdTLdL(name, qs, measx, measQ)
          IN  /\ call' = [op |-> "Q2TdTLdL", qs |-> qs, measx |-> measx, measQ |-> measQ]
              /\ ret' = r[1]
              /\ loc' = r[2]
    /\ pc' = "returned"
    /\ UNCHANGED <<name, x>>

\* arguments of the unit conversions
ConvQs == {0, 10, 100, 300, 3500}
ConvAngles == {0, 500, 1000, 3000, 20000}
ConvWavelengths == {-5000, -1, 0, 4000, 5000}

\* a call of q2a(q, L)
Q2A ==
    /\ pc = "idle"
    /\ \E q \in ConvQs, wl \in ConvWavelengths :
          /\ call' = [op |-> "q2a", x |-> q, L |-> wl]
          /\ ret' = Return(q2a(q, wl))
    /\ pc' = "returned"
    /\ UNCHANGED <<name, x, loc>>

\* a call of a2q(T, L), L a Python float or a numpy value
A2Q ==
    /\ pc = "idle"
    /\ \E t \in ConvAngles, wl \in ConvWavelengths, pyfloat \in BOOLEAN :
          /\ call' = [op |-> "a2q", x |-> t, L |-> wl, pyfloat |-> pyfloat]
          /\ ret' = a2q(t, wl, pyfloat)
    /\ pc' = "returned"
    /\ UNCHANGED <<name, x, loc>>

\* the caller takes the result; the instrument is ready for the next call
Done ==
    /\ pc = "returned"
    /\ pc' = "idle"
    /\ call' = NoCall
    /\ ret' = Return(<<>>)
    /\ loc' = NoLocals
    /\ UNCHANGED <<name, x>>

NextMove == SetX \/ Movetime \/ Done

SpecMove == Init /\ [][NextMove]_vars

NextMeas == Meastime \/ Done

SpecMeas == Init /\ [][NextMeas]_vars

NextRebin == CallQ2TdTLdL \/ Done

SpecRebin == Init /\ [][NextRebin]_vars

NextConv == Q2A \/ A2Q \/ Done

SpecConv == Init /\ [][NextConv]_vars

Next == SetX \/ Movetime \/ Meastime \/ CallQ2TdTLdL \/ Q2A \/ A2Q \/ Done

Spec == Init /\ [][Next]_vars

\* ------------------------------------------------------------ claims

RECURSIVE RatTotal(_)
\* the total of a sequence of rationals
RatTotal(r) == IF r = <<>> THEN <<0, 1>> ELSE RatAdd(r[1], RatTotal(Tail(r)))

ReturnedFrom(op) == pc = "returned" /\ call.op = op

\* the weights mon0 + mon1 * q^Qpow of the positions of the meastime call made
CallWeights == f(name, meas_q(name, call.x))

\* C1: for any total time and any nonempty list of positions whose weights
\* have a nonzero sum, the times meastime returns (base allocator on MAGIK,
\* the override on CANDOR) sum to the total time.
C1_MeastimeSumsToTotal ==
    (ReturnedFrom("meastime") /\ RatTotal(CallWeights)[1] # 0) =>
        /\ Len(ret.value) = Len(call.x)
        /\ \A i \in DOMAIN ret.value : IsNum(ret.value[i])
        /\ RatTotal([i \in DOMAIN ret.value |-> ret.value[i].v])
               = <<call.totaltime, 1>>

\* C1's case: several positions with different nonzero weights share a
\* nonzero total time
C1_Witness ==
    /\ ReturnedFrom("meastime")
    /\ Len(call.x) >= 2
    /\ call.totaltime > 1
    /\ CallWeights[1] # CallWeights[2]
    /\ CallWeights[1][1] # 0 /\ CallWeights[2][1] # 0
    /\ RatTotal(CallWeights)[1] # 0

\* C2 as claimed: with the current position unset, movetime returns one zero
\* for each of the n targets.
C2_ZeroForEachTarget ==
    (ReturnedFrom("movetime") /\ x = None) =>
        /\ Len(ret.value) = Len(call.x)
        /\ \A i \in DOMAIN ret.value : ret.value[i] = 0

\* the change of angle |target_angle - current_angle| of target i of the
\* movetime call made
DeltaT(i) == Abs(x2a(name, call.x[i]) - x2a(name, x[1]))

\* C3: with a current position set, movetime is 0 for a target equal to the
\* current position, never negative, and non-decreasing in
\* |target_angle - current_angle|, across the max_accel_dx threshold too.
C3_MovetimeMonotone ==
    (ReturnedFrom("movetime") /\ x # None) =>
        /\ \A i \in DOMAIN call.x :
              /\ ret.value[i] >= 0
              /\ call.x[i] = x[1] => ret.value[i] = 0
        /\ \A i, j \in DOMAIN call.x :
              DeltaT(i) <= DeltaT(j) => ret.value[i] <= ret.value[j]

\* C3's case: two targets on opposite sides of the threshold
C3_Witness ==
    /\ ReturnedFrom("movetime") /\ x # None
    /\ \E i, j \in DOMAIN call.x :
          /\ 0 < DeltaT(i)
          /\ 2 * DeltaT(i) < max_accel_dx(name)
          /\ 2 * DeltaT(j) >= max_accel_dx(name)
          /\ 0 < ret.value[i] /\ ret.value[i] < ret.value[j]

\* C9: for a vector of targets each element's branch is chosen from its own
\* arm travel dx = 2*|target_angle - current_angle|: the cruise formula
\* exactly when dx >= max_accel_dx, the acceleration-only formula exactly
\* when dx < max_accel_dx; one entry per target, in target order.
C9_BranchPerElement ==
    (ReturnedFrom("movetime") /\ x # None) =>
        /\ Len(ret.value) = Len(call.x)
        /\ \A i \in DOMAIN call.x :
              ret.value[i] = IF 2 * DeltaT(i) >= max_accel_dx(name)
                             THEN CruiseTime(name, 2 * DeltaT(i))
                             ELSE AccelTime(name, 2 * DeltaT(i))

\* C9's case: a cruise target before an acceleration-only target in one call
C9_Witness ==
    /\ ReturnedFrom("movetime") /\ x # None
    /\ Len(call.x) >= 2
    /\ 2 * DeltaT(1) >= max_accel_dx(name)
    /\ 2 * DeltaT(2) < max_accel_dx(name)
    /\ ret.value[1] > ret.value[2]

\* C7 as claimed: q2a and a2q reject a wavelength that is zero or negative:
\* the call ends in an error instead of returning a converted value.
C7_RejectsNonPositiveWavelength ==
    ((ReturnedFrom("q2a") \/ ReturnedFrom("a2q")) /\ call.L <= 0) =>
        ret.raised # "none"

\* the bins of the Q2TdTLdL call made, and its raw points
Bins == 0 .. (loc.nbins - 1)
Raw == DOMAIN loc.bin_index
PointsIn(b) == {p \in Raw : loc.bin_index[p] = b}

\* the bins whose extended edges enclose q: edge below < q <= edge above
BinsAround(q) ==
    {b \in Bins : loc.q_edges[b + 1] < q /\ q <= loc.q_edges[b + 2]}

\* the four values returned for query i are those of bin b
ReturnsBin(i, b) ==
    /\ ret.value[1][i] = loc.bar_T[b]
    /\ ret.value[2][i] = loc.bar_dT[b]
    /\ ret.value[3][i] = loc.bar_L[b]
    /\ ret.value[4][i] = loc.bar_dL[b]

GridMin == call.measQ[1]
GridMax == call.measQ[Len(call.measQ)]

\* C4 as claimed: for every query inside the range of the grid measQ, the
\* four returned values are those of the bin that contains the query, the
\* bin a raw point of that momentum transfer is assigned to, also when the
\* query is not one of the grid values.
C4_QueryGetsContainingBin ==
    ReturnedFrom("Q2TdTLdL") =>
        /\ ret.raised = "none"
        /\ \A i \in DOMAIN call.qs :
              (GridMin <= call.qs[i] /\ call.qs[i] <= GridMax) =>
                  /\ loc.idxs[i] \in BinsAround(call.qs[i])
                  /\ ReturnsBin(i, loc.idxs[i])

\* C5 as claimed, the boundary bin being the bin of the grid value nearest
\* the query: a query below the smallest or above the largest grid value
\* raises no error, its index is a valid bin index, and the result is the
\* value of the first grid bin (below) or of the last grid bin (above).
C5_OutsideGetsGridBoundaryBin ==
    ReturnedFrom("Q2TdTLdL") =>
        /\ ret.raised = "none"
        /\ \A i \in DOMAIN call.qs :
              /\ call.qs[i] < GridMin =>
                    loc.idxs[i] = 1 /\ ReturnsBin(i, 1)
              /\ call.qs[i] > GridMax =>
                    /\ loc.idxs[i] = Len(call.measQ)
                    /\ ReturnsBin(i, Len(call.measQ))

\* C5 as amended: a query outside the grid raises no error and its index
\* is a valid bin index; below the smallest grid value it is index 1, the
\* bin of the smallest grid value; above the largest grid value it is the
\* last index nbins-1, the unbounded bin beyond the bin of the largest grid
\* value; the result is the value of that bin.
C5_OutsideGetsValidBin ==
    ReturnedFrom("Q2TdTLdL") =>
        /\ ret.raised = "none"
        /\ \A i \in DOMAIN call.qs :
              /\ loc.idxs[i] \in Bins
              /\ call.qs[i] < GridMin =>
                    loc.idxs[i] = 1 /\ ReturnsBin(i, 1)
              /\ call.qs[i] > GridMax =>
                    /\ loc.idxs[i] = loc.nbins - 1
                    /\ loc.idxs[i] = Len(call.measQ) + 1
                    /\ ReturnsBin(i, loc.nbins - 1)

\* C5's case: a query above the grid gets the unbounded last bin, which
\* holds raw points
C5_Witness ==
    /\ ReturnedFrom("Q2TdTLdL")
    /\ \E i \in DOMAIN call.qs :
          /\ call.qs[i] > GridMax
          /\ loc.idxs[i] = loc.nbins - 1
          /\ loc.count[loc.idxs[i]] >= 1
          /\ ret.value[3][i] # Num(0)

\* C6: every bin's divisor is at least 1 at each division: an empty bin
\* has its divisor forced to 1 and yields 0 for all four bin means, and a
\* bin that received k >= 1 points keeps the divisor k.
C6_DivisorAtLeastOne ==
    ReturnedFrom("Q2TdTLdL") =>
        /\ DOMAIN loc.sum_w = Bins
        /\ \A b \in Bins :
              LET k == Cardinality(PointsIn(b))
              IN  /\ loc.sum_w[b] >= 1
                  /\ k = 0 => /\ loc.sum_w[b] = 1
                              /\ loc.bar_T[b] = Num(0)
                              /\ loc.bar_dT[b] = Num(0)
                              /\ loc.bar_L[b] = Num(0)
                              /\ loc.bar_dL[b] = Num(0)
                  /\ k >= 1 => loc.sum_w[b] = k

\* C6's case: an empty bin beside a bin of several points
C6_Witness ==
    /\ ReturnedFrom("Q2TdTLdL")
    /\ \E b, c \in Bins :
          /\ PointsIn(b) = {} /\ loc.sum_w[b] = 1
          /\ Cardinality(PointsIn(c)) >= 2 /\ loc.sum_w[c] >= 2

\* the raw points p and r have the same angle, divergence, wavelength and
\* wavelength spread
SameValues(p, r) ==
    /\ loc.T[p] = loc.T[r] /\ loc.dT[p] = loc.dT[r]
    /\ loc.L[p] = loc.L[r] /\ loc.dL[p] = loc.dL[r]

\* C8: a bin that receives k >= 1 raw points that all have the same angle,
\* divergence, wavelength and spread yields exactly those four values as
\* its means (so two identical points give what the single point gives).
C8_IdenticalPointsMean ==
    ReturnedFrom("Q2TdTLdL") =>
        \A b \in Bins : \A p \in PointsIn(b) :
            (\A r \in PointsIn(b) : SameValues(p, r)) =>
                /\ loc.bar_T[b] = Num(loc.T[p])
                /\ loc.bar_dT[b] = Num(loc.dT[p])
                /\ loc.bar_L[b] = Num(loc.L[p])
                /\ loc.bar_dL[b] = Num(loc.dL[p])

\* C8's case: a bin holds exactly two points, and they are identical
C8_Witness ==
    /\ ReturnedFrom("Q2TdTLdL")
    /\ \E b \in Bins :
          /\ Cardinality(PointsIn(b)) = 2
          /\ loc.sum_w[b] = 2
          /\ \A p, r \in PointsIn(b) : SameValues(p, r)
          /\ \A p \in PointsIn(b) :
                loc.bar_dL[b] = Num(loc.dL[p]) /\ loc.dL[p] > 0

RECURSIVE Total(_, _)
\* the total of the function w over the set S
Total(S, w) ==
    IF S = {} THEN 0
    ELSE LET b == CHOOSE b \in S : TRUE
         IN  w[b] + Total(S \ {b}, w)

\* C10: every raw point is assigned to exactly one bin, whose index lies in
\* 0 .. nbins-1 with nbins = number of extended edges - 1, so that before
\* the empty-bin guard the per-bin counts sum to the number of raw points.
C10_EveryPointInOneBin ==
    ReturnedFrom("Q2TdTLdL") =>
        /\ ret.raised = "none"
        /\ loc.nbins = Len(loc.q_edges) - 1
        /\ Cardinality(Raw) = Len(call.measx) * nchannels(name)
        /\ \A p \in Raw :
              /\ loc.bin_index[p] \in Bins
              /\ BinsAround(loc.Q[p]) = {loc.bin_index[p]}
        /\ DOMAIN loc.count = Bins
        /\ Total(Bins, loc.count) = Cardinality(Raw)

\* C10's case: raw points in both unbounded outer bins and in a grid bin
C10_Witness ==
    /\ ReturnedFrom("Q2TdTLdL")
    /\ Cardinality(Raw) >= 3
    /\ PointsIn(0) # {}
    /\ PointsIn(loc.nbins - 1) # {}
    /\ \E b \in Bins : 0 < b /\ b < loc.nbins - 1 /\ PointsIn(b) # {}

====
